---- MODULE Spec2Model ----
(***************************************************************************)
(* A model of langgraph/utils/runnable.py: RunnableCallable (invoke,       *)
(* ainvoke), coerce_to_runnable and RunnableSeq (construction, | and the   *)
(* four invocation modes), with the lifecycle events each call sends to    *)
(* its root run manager.                                                   *)
(***************************************************************************)
EXTENDS Integers, Sequences, FiniteSets, TLC

VARIABLES
    target,         \* what is run: a call on a "seq" or a "callable", two
                    \* concurrent calls ("conc") or compositions ("compose")
    mode,           \* "invoke", "ainvoke", "stream" or "astream"
    pc,             \* the position of the call in its body
    unit,           \* the fields of the invoked RunnableCallable
    behav,          \* what the wrapped function and the unit it returns do
    ret,            \* the local variable ret of RunnableCallable.invoke
    accepts_context,\* ASYNCIO_ACCEPTS_CONTEXT of the running interpreter
    callArgs,       \* the config and keyword arguments the caller passed
    reg,            \* the object or exception the last composition gave
    lastOp,         \* the last composition: its operator and operands
    steps,          \* RunnableSeq.steps of the invoked sequence (behaviours)
    orig,           \* the caller's input
    kwargs,         \* the local variable kwargs
    config,         \* the local variable config
    input,          \* the local variable input (the running value)
    idx,            \* number of loop iterations completed
    task,           \* the step tasks of ainvoke that are in flight
    produced,       \* the chunks the chained iterator has produced, in order
    delivered,      \* the chunks the stream's consumer has received, in order
    pending,        \* the chunk at the yield the generator is suspended at
    output,         \* the local variable output of stream / astream
    add_supported,  \* the local variable add_supported
    folded,         \* number of chunks the collection code has processed
    stack,          \* astream: the callbacks pushed on the AsyncExitStack
    released,       \* astream: the aclose callbacks run, in order
    events,         \* what the root run manager received, in order
    calls,          \* the calls made to steps / inner units, in order
    outcome,        \* what the caller got: none, return or raise
    proc            \* two concurrent ainvoke calls: the state of each

env == <<unit, behav, accepts_context, callArgs, reg, lastOp, proc>>
seqVars == <<steps, orig, kwargs, config, input, idx, task>>
streamVars == <<produced, delivered, pending, output, add_supported, folded,
                stack, released>>
vars == <<target, mode, pc, unit, behav, ret, accepts_context, callArgs, reg,
          lastOp,
          steps, orig, kwargs, config, input, idx, task,
          produced, delivered, pending, output, add_supported, folded, stack,
          released, events, calls, outcome, proc>>

-----------------------------------------------------------------------------
(* Bounds of the model                                                     *)

MaxSteps == 3       \* longest invoked sequence
MaxInput == 2       \* caller inputs are 0..MaxInput

-----------------------------------------------------------------------------
(* Python values: a type tag and a payload of naturals                     *)

Val(t, v) == [t |-> t, v |-> v]
IntV(n) == Val("int", <<n>>)
NoneV == Val("none", <<>>)
\* the exception a step raises, one object per raising step
StepError(i) == Val("StepError", <<i>>)

-----------------------------------------------------------------------------
(* Execution context (RunnableConfig): tags, the callbacks it carries      *)
(* (named by the span they report to) and the explicit run id (0: none)    *)

Cfg(tags, cb, rid) == [tags |-> tags, cb |-> cb, run_id |-> rid]
\* a caller that passes no config passes None
NoneCfg == Cfg({}, "None", 0)
\* no config keyword is passed at all
AbsentCfg == Cfg({}, "absent", 0)
\* keyword arguments: the mapping (0: empty) and the config keyword
Kwargs(kw, c) == [kw |-> kw, config |-> c]
NoKwargs == Kwargs(0, AbsentCfg)
CallerConfigs == {Cfg(tg, "caller", rid) : tg \in SUBSET {"t"}, rid \in 0..1}

\* patch_config(config, callbacks=...)
patch_config(c, cb) == [c EXCEPT !.cb = cb]
\* run_manager.get_child(f"seq:step:{i+1}") of the root run
StepChild(i) == "seq:step:" \o ToString(i)
\* config.pop("run_id", None)
PopRunId(c) == [c EXCEPT !.run_id = 0]

-----------------------------------------------------------------------------
(* Lifecycle events of a run manager                                       *)

Ev(span, kind, val) == [span |-> span, kind |-> kind, val |-> val]
on_chain_start(ev, span, x) == Append(ev, Ev(span, "start", x))
on_chain_end(ev, span, x) == Append(ev, Ev(span, "end", x))
\* seeded fault: the end report placed in a finally clause, so that it follows
\* the error report too
on_chain_error_then_end(ev, span, e) ==
    Append(Append(ev, Ev(span, "error", e)), Ev(span, "end", e))
on_chain_error(ev, span, e) == Append(ev, Ev(span, "error", e))

Return(x) == [kind |-> "return", val |-> x]
Raise(e) == [kind |-> "raise", val |-> e]
NoOutcome == [kind |-> "none", val |-> NoneV]

-----------------------------------------------------------------------------
(* The steps of an invoked sequence: units supplied by the caller.         *)
(* "inc" and "dbl" return a value, "raise" raises its own exception.       *)

StepFns == {"inc", "dbl", "raise"}
StepOut(fn, x, i) ==
    CASE fn = "inc" -> Return(IntV(x.v[1] + 1))
      [] fn = "dbl" -> Return(IntV(2 * x.v[1]))
      [] OTHER -> Raise(StepError(i))

\* a call as the callee sees it: its argument, the config and keyword
\* arguments passed, and the callbacks of the ambient config (amb)
Call(i, x, c, kw, amb) ==
    [step |-> i, arg |-> x, cfg |-> c, kw |-> kw, amb |-> amb]

-----------------------------------------------------------------------------
(* RunnableSeq.invoke                                                      *)

\* seeded fault: every step is handed the caller's input
SeqStepInput_first(i, first, running) == first
\* the input the loop hands to step i (1-based): the running value
SeqStepInput(i, first, running) == running
\* only step 1 receives the caller's keyword arguments
SeqStepKwargs(i, kw) == IF i = 1 THEN kw ELSE NoKwargs

\* the root run is started
SeqEnter ==
    /\ target = "seq" /\ mode \in {"invoke", "ainvoke"} /\ pc = "call"
    /\ events' = on_chain_start(events, "root", input)
    /\ config' = PopRunId(config)
    /\ pc' = "loop"
    /\ UNCHANGED <<target, mode, env, ret,
                   steps, orig, kwargs, input, idx, task,
                   streamVars, calls, outcome>>

\* seeded fault: the exception of a step is swallowed and the loop goes on
SeqInvokeStep_swallow ==
    /\ target = "seq" /\ mode = "invoke" /\ pc = "loop"
    /\ idx < Len(steps)
    /\ LET i == idx + 1
           c == patch_config(config, StepChild(i))
           x == SeqStepInput(i, orig, input)
           r == StepOut(steps[i], x, i)
       IN  /\ config' = c
           /\ calls' = Append(calls,
                              Call(i, x, c, SeqStepKwargs(i, kwargs), c.cb))
           /\ input' = IF r.kind = "return" THEN r.val ELSE input
           /\ idx' = i
           /\ UNCHANGED <<events, outcome, pc>>
    /\ UNCHANGED <<target, mode, env, ret,
                   steps, orig, kwargs, task,
                   streamVars>>

\* one iteration of the for loop; an exception leaves through the
\* except clause
SeqInvokeStep ==
    /\ target = "seq" /\ mode = "invoke" /\ pc = "loop"
    /\ idx < Len(steps)
    /\ LET i == idx + 1
           c == patch_config(config, StepChild(i))
           x == SeqStepInput(i, orig, input)
           r == StepOut(steps[i], x, i)
       IN  /\ config' = c
           /\ calls' = Append(calls,
                              Call(i, x, c, SeqStepKwargs(i, kwargs), c.cb))
           /\ IF r.kind = "return"
              THEN /\ input' = r.val
                   /\ idx' = i
                   /\ UNCHANGED <<events, outcome, pc>>
              ELSE /\ events' = on_chain_error(events, "root", r.val)
                   /\ outcome' = Raise(r.val)
                   /\ pc' = "done"
                   /\ UNCHANGED <<input, idx>>
    /\ UNCHANGED <<target, mode, env, ret,
                   steps, orig, kwargs, task, streamVars>>

\* the else clause: the loop ended without an exception
SeqEnd ==
    /\ target = "seq" /\ mode \in {"invoke", "ainvoke"} /\ pc = "loop"
    /\ idx = Len(steps)
    /\ events' = on_chain_end(events, "root", input)
    /\ outcome' = Return(input)
    /\ pc' = "done"
    /\ UNCHANGED <<target, mode, env, ret,
                   seqVars, streamVars, calls>>

-----------------------------------------------------------------------------
(* RunnableSeq.ainvoke: each step runs as a task the loop awaits           *)

\* the ambient config a task sees: create_task is given the context the
\* config was set in only when the interpreter accepts it
TaskAmbient(c) == IF accepts_context THEN c.cb ELSE "caller"

\* seeded fault: the task is created and not awaited, the loop going on
\* with the value it has
SeqTaskCreate_notAwaited ==
    /\ target = "seq" /\ mode = "ainvoke" /\ pc = "loop"
    /\ idx < Len(steps)
    /\ LET i == idx + 1
           c == patch_config(config, StepChild(i))
           x == SeqStepInput(i, orig, input)
       IN  /\ config' = c
           /\ task' = Append(task, Call(i, x, c, SeqStepKwargs(i, kwargs),
                                        TaskAmbient(c)))
           /\ idx' = i
    /\ UNCHANGED <<target, mode, pc, env, ret,
                   steps, orig, kwargs, input, streamVars,
                   events, calls, outcome>>
\* asyncio.create_task(coro, ...): the step's task joins the tasks in
\* flight, and the loop awaits it
SeqTaskCreate ==
    /\ target = "seq" /\ mode = "ainvoke" /\ pc = "loop"
    /\ idx < Len(steps)
    /\ LET i == idx + 1
           c == patch_config(config, StepChild(i))
           x == SeqStepInput(i, orig, input)
       IN  /\ config' = c
           /\ task' = Append(task, Call(i, x, c, SeqStepKwargs(i, kwargs),
                                        TaskAmbient(c)))
    /\ pc' = "await"
    /\ UNCHANGED <<target, mode, env, ret,
                   steps, orig, kwargs, input, idx, streamVars,
                   events, calls, outcome>>

\* the event loop runs the step's task: step.ainvoke runs to its end and the
\* awaiting call is scheduled to resume
SeqTaskRun ==
    /\ target = "seq" /\ mode = "ainvoke" /\ pc = "await"
    /\ calls' = Append(calls, task[1])
    /\ pc' = "resume"
    /\ UNCHANGED <<target, mode, env, ret, seqVars, streamVars,
                   events, outcome>>

\* the await resumes with the result or the exception of the finished task
SeqTaskDone ==
    /\ target = "seq" /\ mode = "ainvoke" /\ pc = "resume"
    /\ LET t == task[1]
           r == StepOut(steps[t.step], t.arg, t.step)
       IN  /\ task' = Tail(task)
           /\ IF r.kind = "return"
              THEN /\ input' = r.val
                   /\ idx' = t.step
                   /\ pc' = "loop"
                   /\ UNCHANGED <<events, outcome>>
              ELSE /\ events' = on_chain_error(events, "root", r.val)
                   /\ outcome' = Raise(r.val)
                   /\ pc' = "done"
                   /\ UNCHANGED <<input, idx>>
    /\ UNCHANGED <<target, mode, env, ret,
                   steps, orig, kwargs, config, streamVars, calls>>

\* asyncio.CancelledError, a BaseException
CancelledError == Val("CancelledError", <<>>)

\* seeded fault: the handler is except Exception, which CancelledError
\* passes without a report
SeqCancel_unreported ==
    /\ target = "seq" /\ mode = "ainvoke" /\ pc \in {"await", "resume"}
    /\ task' = <<>>
    /\ outcome' = Raise(CancelledError)
    /\ pc' = "done"
    /\ UNCHANGED <<target, mode, env, ret,
                   steps, orig, kwargs, config, input, idx, streamVars,
                   calls, events>>
\* the task running ainvoke is cancelled while it is suspended at the
\* await: a step task that has not run yet is cancelled with it and never
\* runs, the result of one that has finished is dropped; CancelledError is
\* raised at the await and leaves through except BaseException
SeqCancel ==
    /\ target = "seq" /\ mode = "ainvoke" /\ pc \in {"await", "resume"}
    /\ task' = <<>>
    /\ events' = on_chain_error(events, "root", CancelledError)
    /\ outcome' = Raise(CancelledError)
    /\ pc' = "done"
    /\ UNCHANGED <<target, mode, env, ret,
                   steps, orig, kwargs, config, input, idx, streamVars,
                   calls>>

-----------------------------------------------------------------------------

(* Two calls of RunnableSeq.ainvoke on one sequence, each running in an    *)
(* asyncio task of its own; the steps of the event loop interleave         *)

CallIds == {1, 2}
\* the config variable in the context of the code that starts the calls
CallerAmbient == Cfg({}, "ambient", 0)
\* the tag the caller puts in the config of call c
CallTag(c) == "t" \o ToString(c)

\* copy_context(): a snapshot of the context of the running task
copy_context(cur) == cur
\* context.run(_set_config_context, config): the config variable is set in
\* the snapshot, the context of the running task keeps its value
set_config_context(snapshot, c) == c
\* the context the step's task runs in: the snapshot when create_task is
\* given it, else the copy create_task makes of the running task's context
TaskContext(cur, snapshot) ==
    IF accepts_context THEN snapshot ELSE copy_context(cur)

\* the state of one call: its position, its locals, the config variable in
\* the context of its task (ctx), the step task it awaits, the calls its
\* steps received, the events of its root run and what its caller got
Proc(at, x, c, cur) ==
    [pc |-> at, orig |-> x, input |-> x, config |-> c, ctx |-> cur,
     idx |-> 0, task |-> <<>>, calls |-> <<>>, events |-> <<>>,
     outcome |-> NoOutcome]
NoProcs == [c \in CallIds |-> Proc("none", NoneV, NoneCfg, NoneCfg)]

concRest == <<target, mode, pc, unit, behav, ret, accepts_context, callArgs,
              reg, lastOp, seqVars, streamVars, events, calls, outcome>>

\* the root run of call c is started
AinvokeEnter(c) ==
    /\ target = "conc" /\ proc[c].pc = "call"
    /\ proc' = [proc EXCEPT
                   ![c].events = on_chain_start(@, "root", proc[c].input),
                   ![c].config = PopRunId(@),
                   ![c].pc = "loop"]
    /\ UNCHANGED concRest

\* one iteration of the loop of call c up to the await
AinvokeTaskCreate(c) ==
    /\ target = "conc" /\ proc[c].pc = "loop"
    /\ proc[c].idx < Len(steps)
    /\ LET i == proc[c].idx + 1
           cfg == patch_config(proc[c].config, StepChild(i))
           context == set_config_context(copy_context(proc[c].ctx), cfg)
           x == SeqStepInput(i, proc[c].orig, proc[c].input)
       IN  proc' = [proc EXCEPT
                      ![c].config = cfg,
                      ![c].task = Append(@, Call(i, x, cfg, NoKwargs,
                                                 TaskContext(proc[c].ctx,
                                                             context))),
                      ![c].pc = "await"]
    /\ UNCHANGED concRest

\* the event loop runs the step task of call c
AinvokeTaskRun(c) ==
    /\ target = "conc" /\ proc[c].pc = "await"
    /\ proc' = [proc EXCEPT ![c].calls = Append(@, proc[c].task[1]),
                            ![c].pc = "resume"]
    /\ UNCHANGED concRest

\* the await of call c resumes with the result or the exception of the task
AinvokeTaskDone(c) ==
    /\ target = "conc" /\ proc[c].pc = "resume"
    /\ LET t == proc[c].task[1]
           r == StepOut(steps[t.step], t.arg, t.step)
       IN  proc' = IF r.kind = "return"
                   THEN [proc EXCEPT ![c].task = Tail(@),
                                     ![c].input = r.val,
                                     ![c].idx = t.step,
                                     ![c].pc = "loop"]
                   ELSE [proc EXCEPT
                           ![c].task = Tail(@),
                           ![c].events = on_chain_error(@, "root", r.val),
                           ![c].outcome = Raise(r.val),
                           ![c].pc = "done"]
    /\ UNCHANGED concRest

\* the loop of call c ended without an exception
AinvokeEnd(c) ==
    /\ target = "conc" /\ proc[c].pc = "loop"
    /\ proc[c].idx = Len(steps)
    /\ proc' = [proc EXCEPT
                   ![c].events = on_chain_end(@, "root", proc[c].input),
                   ![c].outcome = Return(proc[c].input),
                   ![c].pc = "done"]
    /\ UNCHANGED concRest

-----------------------------------------------------------------------------

(* RunnableSeq.stream and RunnableSeq.astream                              *)

Streams == {"stream", "astream"}

\* chunk values: 1, 2, 3, "a" and {"x": 1}
StrA == Val("str", <<97>>)
DictX1 == Val("dict", <<120, 1>>)
ChunkVals == {IntV(1), IntV(2), IntV(3), StrA, DictX1}
MaxChunks == 3      \* most chunks the chained iterator produces

\* Python's output + chunk: defined on two ints and on two strings,
\* TypeError otherwise
CanAdd(a, b) == a.t = b.t /\ a.t \in {"int", "str"}
Add(a, b) == IF a.t = "int" THEN IntV(a.v[1] + b.v[1])
             ELSE Val("str", a.v \o b.v)

\* the value add_supported is initialised with
AddSupportedInit == FALSE

Acc(o, s) == [output |-> o, add_supported |-> s]

\* the collection code of stream after the yield
FoldStream(out, sup, chunk) ==
    IF out = NoneV THEN Acc(chunk, sup)
    ELSE IF sup
         THEN IF CanAdd(out, chunk) THEN Acc(Add(out, chunk), sup)
              ELSE Acc(chunk, FALSE)
         ELSE Acc(chunk, sup)

\* the collection code of astream after the yield
FoldAStream(out, sup, chunk) ==
    IF sup
    THEN IF CanAdd(out, chunk) THEN Acc(Add(out, chunk), sup)
         ELSE Acc(chunk, FALSE)
    ELSE Acc(chunk, sup)

\* seeded fault: without accumulation the first collected chunk is kept
Fold_keepsFirst(m, out, sup, chunk) ==
    IF out = NoneV THEN Acc(chunk, sup) ELSE Acc(out, sup)
Fold(m, out, sup, chunk) ==
    IF m = "stream" THEN FoldStream(out, sup, chunk)
    ELSE FoldAStream(out, sup, chunk)

RECURSIVE Reverse(_)
Reverse(s) == IF s = <<>> THEN <<>> ELSE Append(Reverse(Tail(s)), Head(s))

\* seeded fault: the callbacks are run in the order they were pushed in
ExitStack_fifo(m, st) == IF m = "astream" THEN st ELSE <<>>
\* leaving the async with block runs the pushed callbacks, last first;
\* stream has no exit stack
ExitStack(m, st) == IF m = "astream" THEN Reverse(st) ELSE <<>>

\* the exception the chained iterator raises while producing
ProducerError == Val("StepError", <<0>>)
GeneratorExit == Val("GeneratorExit", <<>>)

\* seeded fault: the collected output is yielded in place of the chunk
Yielded_output(chunk, out) == out
\* yield chunk: what the consumer receives for a chunk, the collected
\* output being out
Yielded(chunk, out) == chunk

\* the generator starts running: the root run is started
StreamEnter ==
    /\ target = "seq" /\ mode \in Streams /\ pc = "call"
    /\ events' = on_chain_start(events, "root", input)
    /\ config' = PopRunId(config)
    /\ pc' = "build"
    /\ UNCHANGED <<target, mode, env, ret,
                   steps, orig, kwargs, input, idx, task,
                   streamVars, calls, outcome>>

\* one iteration of the loop that chains the steps' iterators; the call
\* to step.stream / step.transform may raise
StreamBuild ==
    /\ target = "seq" /\ mode \in Streams /\ pc = "build"
    /\ idx < Len(steps)
    /\ LET i == idx + 1
           c == patch_config(config, StepChild(i))
       IN  /\ config' = c
           /\ calls' = Append(calls,
                              Call(i, IF i = 1 THEN input ELSE NoneV, c,
                                   SeqStepKwargs(i, kwargs), "caller"))
           /\ IF steps[i] # "raise"
              THEN /\ idx' = i
                   /\ stack' = IF mode = "astream" /\ steps[i] = "agen"
                               THEN Append(stack, i) ELSE stack
                   /\ UNCHANGED <<pc, released, events, outcome>>
              ELSE /\ released' = ExitStack(mode, stack)
                   /\ events' = on_chain_error(events, "root", StepError(i))
                   /\ outcome' = Raise(StepError(i))
                   /\ pc' = "done"
                   /\ UNCHANGED <<idx, stack>>
    /\ UNCHANGED <<target, mode, env, ret,
                   steps, orig, kwargs, input, task,
                   produced, delivered, pending, output, add_supported, folded>>

\* the chain is built: the collection locals are initialised
StreamBuilt ==
    /\ target = "seq" /\ mode \in Streams /\ pc = "build"
    /\ idx = Len(steps)
    /\ output' = NoneV
    /\ add_supported' = AddSupportedInit
    /\ pc' = "pull"
    /\ UNCHANGED <<target, mode, env, ret,
                   seqVars, produced, delivered,
                   pending, folded, stack, released, events, calls, outcome>>

\* the chained iterator produces a chunk, which is yielded to the consumer
StreamYield ==
    /\ target = "seq" /\ mode \in Streams /\ pc = "pull"
    /\ Len(produced) < MaxChunks
    /\ \E chunk \in ChunkVals :
          /\ produced' = Append(produced, chunk)
          /\ pending' = chunk
          /\ delivered' = Append(delivered, Yielded(chunk, output))
    /\ pc' = "yield"
    /\ UNCHANGED <<target, mode, env, ret,
                   seqVars, output, add_supported,
                   folded, stack, released, events, calls, outcome>>

\* the consumer asks for the next chunk: the generator resumes after the
\* yield and collects the chunk it had yielded
StreamResume ==
    /\ target = "seq" /\ mode \in Streams /\ pc = "yield"
    /\ LET a == Fold(mode, output, add_supported, pending)
       IN  /\ output' = a.output
           /\ add_supported' = a.add_supported
    /\ folded' = folded + 1
    /\ pending' = NoneV
    /\ pc' = "pull"
    /\ UNCHANGED <<target, mode, env, ret,
                   seqVars, produced, delivered, stack,
                   released, events, calls, outcome>>

\* the chained iterator is exhausted: the else clause reports the output
StreamExhausted ==
    /\ target = "seq" /\ mode \in Streams /\ pc = "pull"
    /\ released' = ExitStack(mode, stack)
    /\ events' = on_chain_end(events, "root", output)
    /\ outcome' = Return(NoneV)
    /\ pc' = "done"
    /\ UNCHANGED <<target, mode, env, ret,
                   seqVars, produced, delivered,
                   pending, output, add_supported, folded, stack, calls>>

\* the chained iterator raises instead of producing a chunk
StreamProducerRaises ==
    /\ target = "seq" /\ mode \in Streams /\ pc = "pull"
    /\ released' = ExitStack(mode, stack)
    /\ events' = on_chain_error(events, "root", ProducerError)
    /\ outcome' = Raise(ProducerError)
    /\ pc' = "done"
    /\ UNCHANGED <<target, mode, env, ret,
                   seqVars, produced, delivered,
                   pending, output, add_supported, folded, stack, calls>>

\* the task consuming astream is cancelled while the generator awaits the
\* next chunk: CancelledError leaves the async with block and is reported
StreamCancel ==
    /\ target = "seq" /\ mode = "astream" /\ pc = "pull"
    /\ released' = ExitStack(mode, stack)
    /\ events' = on_chain_error(events, "root", CancelledError)
    /\ outcome' = Raise(CancelledError)
    /\ pc' = "done"
    /\ UNCHANGED <<target, mode, env, ret,
                   seqVars, produced, delivered,
                   pending, output, add_supported, folded, stack, calls>>

\* seeded fault: closing the generator reports the output collected so far
StreamClose_reportsOutput ==
    /\ target = "seq" /\ mode \in Streams /\ pc = "yield"
    /\ released' = ExitStack(mode, stack)
    /\ events' = on_chain_end(events, "root", output)
    /\ outcome' = Raise(GeneratorExit)
    /\ pc' = "done"
    /\ UNCHANGED <<target, mode, env, ret,
                   seqVars, produced, delivered,
                   pending, output, add_supported, folded, stack, calls>>
\* the consumer closes the generator it abandons: GeneratorExit is raised
\* at the yield and caught by except BaseException
StreamClose ==
    /\ target = "seq" /\ mode \in Streams /\ pc = "yield"
    /\ released' = ExitStack(mode, stack)
    /\ events' = on_chain_error(events, "root", GeneratorExit)
    /\ outcome' = Raise(GeneratorExit)
    /\ pc' = "done"
    /\ UNCHANGED <<target, mode, env, ret,
                   seqVars, produced, delivered,
                   pending, output, add_supported, folded, stack, calls>>

-----------------------------------------------------------------------------

(* RunnableCallable.invoke and RunnableCallable.ainvoke                    *)

\* ensure_config(merge_configs(self.config, config)): the unit's tags
\* under the caller's config
merge_configs(tags, c) ==
    Cfg(tags \cup c.tags, IF c.cb = "None" THEN "default" ELSE c.cb, c.run_id)

\* {**self.kwargs, **kwargs}: 0 is the empty mapping, the call's win
MergeKwargs(fixed, given) == IF given # 0 THEN given ELSE fixed

\* the values a wrapped function and a returned unit produce
UnitU2 == Val("unit", <<2>>)
FuncError == Val("StepError", <<1>>)
InnerError == Val("StepError", <<2>>)
FuncOut(b, x) ==
    CASE b = "value" -> Return(IntV(x.v[1] + 1))
      [] b = "unit" -> Return(UnitU2)
      [] OTHER -> Raise(FuncError)
InnerOut(b, x) ==
    IF b = "value" THEN Return(IntV(2 * x.v[1])) ELSE Raise(InnerError)

NoSyncFunction == Val("TypeError", <<1>>)
isinstance_Runnable(x) == x.t = "unit"

\* ainvoke of a unit without afunc is self.invoke(input, config): the
\* synchronous body runs, without the call's keyword arguments
SyncBody == mode = "invoke" \/ ~unit.afunc
BodyKwargs(given) == IF mode = "invoke" \/ unit.afunc THEN given ELSE 0
AcceptsConfig ==
    IF SyncBody THEN unit.func_accepts_config ELSE unit.afunc_accepts_config

\* if self.func_accepts_config: kwargs["config"] = config
InjectedConfig(accepts, c) == IF accepts THEN c ELSE AbsentCfg

\* seeded fault: the returned unit is invoked with the child config of the run
RecurseConfig_child(resolved, child) == child
\* the config the returned unit is invoked with
RecurseConfig(resolved, child) == resolved

\* seeded fault: the run is started before the synchronous function is
\* looked for
CallableEnter_startsFirst ==
    /\ target = "callable" /\ pc = "call"
    /\ events' = IF unit.trace
                 THEN on_chain_start(events, "root", input)
                 ELSE events
    /\ IF SyncBody /\ ~unit.func
       THEN /\ outcome' = Raise(NoSyncFunction)
            /\ pc' = "done"
            /\ UNCHANGED <<kwargs, config>>
       ELSE /\ kwargs' = Kwargs(MergeKwargs(unit.kwargs, BodyKwargs(kwargs.kw)),
                                InjectedConfig(AcceptsConfig, config))
            /\ config' = LET c == merge_configs(unit.tags, config)
                         IN  IF unit.trace THEN PopRunId(c) ELSE c
            /\ pc' = "run"
            /\ UNCHANGED outcome
    /\ UNCHANGED <<target, mode, env, ret,
                   steps, orig, input, idx, task,
                   streamVars, calls>>
\* the body up to and including on_chain_start
CallableEnter ==
    /\ target = "callable" /\ pc = "call"
    /\ IF SyncBody /\ ~unit.func
       THEN /\ outcome' = Raise(NoSyncFunction)
            /\ pc' = "done"
            /\ UNCHANGED <<kwargs, config, events>>
       ELSE /\ kwargs' = Kwargs(MergeKwargs(unit.kwargs, BodyKwargs(kwargs.kw)),
                                InjectedConfig(AcceptsConfig, config))
            /\ config' = LET c == merge_configs(unit.tags, config)
                         IN  IF unit.trace THEN PopRunId(c) ELSE c
            /\ events' = IF unit.trace
                         THEN on_chain_start(events, "root", input)
                         ELSE events
            /\ pc' = "run"
            /\ UNCHANGED outcome
    /\ UNCHANGED <<target, mode, env, ret,
                   steps, orig, input, idx, task,
                   streamVars, calls>>

\* the wrapped function runs in its context; the traced branch reports its
\* exception or its return value, then the returned value is inspected
CallableRun ==
    /\ target = "callable" /\ pc = "run"
    /\ LET child == patch_config(config, "root:child")
           ambient == IF unit.trace THEN child ELSE config
           amb == IF SyncBody \/ accepts_context THEN ambient.cb ELSE "caller"
           r == FuncOut(behav.fn, input)
       IN  /\ calls' = Append(calls, Call(1, input, AbsentCfg, kwargs, amb))
           /\ IF r.kind = "raise"
              THEN /\ events' = IF unit.trace
                                THEN on_chain_error(events, "root", r.val)
                                ELSE events
                   /\ outcome' = r
                   /\ pc' = "done"
                   /\ UNCHANGED ret
              ELSE /\ events' = IF unit.trace
                                THEN on_chain_end(events, "root", r.val)
                                ELSE events
                   /\ ret' = r.val
                   /\ IF isinstance_Runnable(r.val) /\ unit.recurse
                      THEN pc' = "recurse" /\ UNCHANGED outcome
                      ELSE pc' = "done" /\ outcome' = r
    /\ UNCHANGED <<target, mode, env, steps, orig, kwargs, config, input, idx,
                   task, streamVars>>

\* seeded fault: the returned unit is invoked inside the try statement, so
\* that its exception is reported to the run
CallableRecurse_reported ==
    /\ target = "callable" /\ pc = "recurse"
    /\ LET c == RecurseConfig(config, patch_config(config, "root:child"))
       IN  calls' = Append(calls, Call(2, input, c, NoKwargs, "caller"))
    /\ outcome' = InnerOut(behav.inner, input)
    /\ events' = IF unit.trace /\ behav.inner = "raise"
                 THEN on_chain_error(events, "root", InnerError)
                 ELSE events
    /\ pc' = "done"
    /\ UNCHANGED <<target, mode, env, ret,
                   steps, orig, kwargs, config, input,
                   idx, task, streamVars>>
\* return ret.invoke(input, config) / return await ret.ainvoke(input, config)
CallableRecurse ==
    /\ target = "callable" /\ pc = "recurse"
    /\ LET c == RecurseConfig(config, patch_config(config, "root:child"))
       IN  calls' = Append(calls, Call(2, input, c, NoKwargs, "caller"))
    /\ outcome' = InnerOut(behav.inner, input)
    /\ pc' = "done"
    /\ UNCHANGED <<target, mode, env, ret,
                   steps, orig, kwargs, config, input,
                   idx, task, streamVars, events>>

-----------------------------------------------------------------------------

(* Values that take part in composition: units, sequences and the things *)
(* coerce_to_runnable accepts or rejects                                   *)

Thing(kind, id, st, f, af, tr) ==
    [kind |-> kind, id |-> id, steps |-> st, func |-> f, afunc |-> af,
     trace |-> tr]
\* a Runnable that is no sequence
Atom(id) == Thing("Runnable", id, <<>>, FALSE, FALSE, FALSE)
\* things that are no Runnable: a plain function, a coroutine function, a
\* generator function, a dict and a value of an unsupported type
Plain(kind) == Thing(kind, "", <<>>, FALSE, FALSE, FALSE)
Error(kind, id) == Thing(kind, id, <<>>, FALSE, FALSE, FALSE)
NoThing == Plain("none")
IsError(x) == x.kind \in {"TypeError", "ValueError"}

RunnableKinds == {"Runnable", "RunnableCallable", "RunnableLambda",
                  "RunnableParallel", "RunnableSeq", "RunnableSequence"}
isinstance_of_Runnable(x) == x.kind \in RunnableKinds
SeqKinds == {"RunnableSeq", "RunnableSequence"}

\* RunnableCallable(func, afunc, name=name, trace=trace)
RunnableCallable(f, af, tr) == Thing("RunnableCallable", "", <<>>, f, af, tr)

\* coerce_to_runnable(thing, name=..., trace=...)
coerce_to_runnable(thing, trace) ==
    IF isinstance_of_Runnable(thing) THEN thing
    ELSE IF thing.kind = "generator function"
         THEN Thing("RunnableLambda", "", <<>>, FALSE, FALSE, FALSE)
    ELSE IF thing.kind = "coroutine function"
         THEN RunnableCallable(FALSE, TRUE, trace)
    ELSE IF thing.kind = "function"
         THEN RunnableCallable(TRUE, TRUE, trace)
    ELSE IF thing.kind = "dict"
         THEN Thing("RunnableParallel", "", <<>>, FALSE, FALSE, FALSE)
    ELSE Error("TypeError", "unsupported type")

\* a call of coerce_to_runnable: name and trace are keyword-only parameters
\* without defaults, so a call that omits one raises TypeError
CoerceCall(thing, given, trace) ==
    IF {"name", "trace"} \subseteq given
    THEN coerce_to_runnable(thing, trace)
    ELSE Error("TypeError", "missing keyword-only argument")

\* the least number of steps a RunnableSeq is built with
MinSteps == 2

\* seeded fault: a RunnableSeq argument is appended as one step
SpliceSeq_nested(flat, step) == Append(flat, step)
\* how RunnableSeq.__init__ adds a step that is a RunnableSeq
SpliceSeq(flat, step) == flat \o step.steps
\* how RunnableSeq.__init__ adds a step that is a RunnableSequence
SpliceSequence(flat, step) == flat \o step.steps

\* the loop of RunnableSeq.__init__ over the steps left, from steps_flat;
\* the result is the list or the exception coercion raised
RECURSIVE Flatten(_, _)
Flatten(rest, flat) ==
    IF rest = <<>> THEN [ok |-> TRUE, steps |-> flat, err |-> NoThing]
    ELSE LET step == Head(rest)
         IN  IF step.kind = "RunnableSequence"
             THEN Flatten(Tail(rest), SpliceSequence(flat, step))
             ELSE IF step.kind = "RunnableSeq"
             THEN Flatten(Tail(rest), SpliceSeq(flat, step))
             ELSE LET c == CoerceCall(step, {"name", "trace"}, TRUE)
                  IN  IF IsError(c)
                      THEN [ok |-> FALSE, steps |-> flat, err |-> c]
                      ELSE Flatten(Tail(rest), Append(flat, c))

TooFewSteps(n) == Error("ValueError", "at least 2 steps, got " \o ToString(n))

\* seeded fault: the length check accepts a single step
RunnableSeq_oneStep(args) ==
    LET r == Flatten(args, <<>>)
    IN  IF ~r.ok THEN r.err
        ELSE IF Len(r.steps) < 1 THEN TooFewSteps(Len(r.steps))
        ELSE Thing("RunnableSeq", "", r.steps, FALSE, FALSE, FALSE)
\* RunnableSeq(*steps)
RunnableSeq(args) ==
    LET r == Flatten(args, <<>>)
    IN  IF ~r.ok THEN r.err
        ELSE IF Len(r.steps) < MinSteps THEN TooFewSteps(Len(r.steps))
        ELSE Thing("RunnableSeq", "", r.steps, FALSE, FALSE, FALSE)

\* langchain's RunnableSequence(*steps) on steps that are Runnables
RunnableSequence(args) ==
    Thing("RunnableSequence", "", args, FALSE, FALSE, FALSE)

\* RunnableSeq.__or__(self, other)
Or(self, other) ==
    IF other.kind = "RunnableSequence"
    THEN RunnableSeq(self.steps \o other.steps)
    ELSE IF other.kind = "RunnableSeq"
    THEN RunnableSeq(self.steps \o other.steps)
    ELSE LET c == CoerceCall(other, {}, TRUE)
         IN  IF IsError(c) THEN c ELSE RunnableSeq(Append(self.steps, c))

\* RunnableSeq.__ror__(self, other)
Ror(self, other) ==
    IF other.kind = "RunnableSequence"
    THEN RunnableSequence(other.steps \o self.steps)
    ELSE IF other.kind = "RunnableSeq"
    THEN RunnableSeq(other.steps \o self.steps)
    ELSE LET c == CoerceCall(other, {}, TRUE)
         IN  IF IsError(c) THEN c ELSE RunnableSequence(<<c>> \o self.steps)

MaxSeqLen == 4      \* longest step list composition builds
MaxArgs == 2        \* most arguments given to the RunnableSeq constructor

Atoms == {Atom("a"), Atom("b")}
Plains == {Plain("function"), Plain("coroutine function"),
           Plain("generator function"), Plain("dict"), Plain("int")}
\* sequences the caller holds: RunnableSeq(c, d), and langchain sequences,
\* whose steps are any Runnables
HeldSeqs == {RunnableSeq(<<Atom("c"), Atom("d")>>)}
HeldSequences == {RunnableSequence(<<Atom("c"), Atom("d")>>),
                  RunnableSequence(<<Atom("a"),
                                     RunnableSeq(<<Atom("c"), Atom("d")>>)>>)}
Held == Atoms \cup Plains \cup HeldSeqs \cup HeldSequences
Operands == Held \cup (IF isinstance_of_Runnable(reg) THEN {reg} ELSE {})
\* argument lists of held operands
HeldLists(n) == UNION {[1..k -> Held] : k \in 0..n}
InsertAt(s, p, x) == SubSeq(s, 1, p - 1) \o <<x>> \o SubSeq(s, p, Len(s))
\* argument lists that use the object in reg once
ListsWith(x) ==
    {InsertAt(s, p, x) : <<s, p>> \in
        {sp \in HeldLists(MaxArgs - 1) \X (1..MaxArgs) :
            sp[2] <= Len(sp[1]) + 1}}
ArgLists == IF reg = NoThing THEN HeldLists(MaxArgs)
            ELSE IF isinstance_of_Runnable(reg) THEN ListsWith(reg) ELSE {}

Op(op, args) == [op |-> op, args |-> args]
NoOp == Op("none", <<>>)

\* the length of the step list an operation would build (the cap of the
\* model)
RECURSIVE Width(_)
Width(args) ==
    IF args = <<>> THEN 0
    ELSE (IF Head(args).kind \in SeqKinds THEN Len(Head(args).steps) ELSE 1)
         + Width(Tail(args))

composeRest == <<target, mode, pc, unit, behav, ret, accepts_context, callArgs,
                 seqVars,
                 streamVars, events, calls, outcome, proc>>

\* RunnableSeq(*args). What a construction gives depends on its arguments
\* alone, so one that does not use the object in reg is taken once, from
\* the initial state.
Construct ==
    /\ target = "compose"
    /\ \E args \in ArgLists :
          /\ Width(args) <= MaxSeqLen
          /\ reg' = RunnableSeq(args)
          /\ lastOp' = Op("init", args)
    /\ UNCHANGED composeRest

Append_ ==
    /\ target = "compose"
    /\ reg.kind = "RunnableSeq"
    /\ \E other \in Operands :
          /\ Width(<<reg, other>>) <= MaxSeqLen
          /\ reg' = Or(reg, other)
          /\ lastOp' = Op("or", <<reg, other>>)
    /\ UNCHANGED composeRest

Prepend ==
    /\ target = "compose"
    /\ reg.kind = "RunnableSeq"
    /\ \E other \in Operands :
          /\ Width(<<other, reg>>) <= MaxSeqLen
          /\ reg' = Ror(reg, other)
          /\ lastOp' = Op("ror", <<reg, other>>)
    /\ UNCHANGED composeRest

-----------------------------------------------------------------------------

\* the streaming locals of a call that is not a stream
StreamIdle ==
    /\ produced = <<>>
    /\ delivered = <<>>
    /\ pending = NoneV
    /\ output = NoneV
    /\ add_supported = FALSE
    /\ folded = 0
    /\ stack = <<>>
    /\ released = <<>>

StepLists == UNION {[1..n -> StepFns] : n \in 2..MaxSteps}

\* the fields of a RunnableCallable
Unit(f, af, fc, afc, tags, kw, tr, rec) ==
    [func |-> f, afunc |-> af, func_accepts_config |-> fc,
     afunc_accepts_config |-> afc, tags |-> tags, kwargs |-> kw,
     trace |-> tr, recurse |-> rec]
NoUnit == Unit(FALSE, FALSE, FALSE, FALSE, {}, 0, FALSE, FALSE)
Behav(fn, inner) == [fn |-> fn, inner |-> inner]

\* accepts_config is set only for a function that is bound
Units ==
    {Unit(f, af, fc, afc, tags, kw, tr, rec) :
        f \in BOOLEAN, af \in BOOLEAN, fc \in BOOLEAN, afc \in BOOLEAN,
        tags \in {{}, {"u"}}, kw \in {0, 1}, tr \in BOOLEAN,
        rec \in BOOLEAN}
ConstructedUnits ==
    {u \in Units : (u.func_accepts_config => u.func)
                   /\ (u.afunc_accepts_config => u.afunc)}

InitCompose ==
    /\ target = "compose"
    /\ mode = "invoke"
    /\ pc = "call"
    /\ unit = NoUnit
    /\ behav = Behav("value", "value")
    /\ ret = NoneV
    /\ accepts_context = TRUE
    /\ reg = NoThing
    /\ lastOp = NoOp
    /\ steps = <<>>
    /\ orig = IntV(0)
    /\ kwargs = NoKwargs
    /\ config = NoneCfg
    /\ callArgs = [config |-> config, kwargs |-> kwargs]
    /\ input = orig
    /\ idx = 0
    /\ task = <<>>
    /\ StreamIdle
    /\ events = <<>>
    /\ calls = <<>>
    /\ outcome = NoOutcome
    /\ proc = NoProcs

InitCallable ==
    /\ target = "callable"
    /\ mode \in {"invoke", "ainvoke"}
    /\ pc = "call"
    /\ unit \in ConstructedUnits
    /\ behav \in {Behav("value", "value"), Behav("raise", "value"),
                  Behav("unit", "value"), Behav("unit", "raise")}
    /\ ret = NoneV
    /\ accepts_context \in (IF mode = "ainvoke" THEN BOOLEAN ELSE {TRUE})
    /\ reg = NoThing
    /\ lastOp = NoOp
    /\ steps = <<>>
    /\ orig = IntV(1)
    /\ kwargs \in {Kwargs(k, AbsentCfg) : k \in {0, 2}}
    /\ config \in {NoneCfg, Cfg({}, "caller", 0), Cfg({"t"}, "caller", 1)}
    /\ callArgs = [config |-> config, kwargs |-> kwargs]
    /\ input = orig
    /\ idx = 0
    /\ task = <<>>
    /\ StreamIdle
    /\ events = <<>>
    /\ calls = <<>>
    /\ outcome = NoOutcome
    /\ proc = NoProcs

InitSeq ==
    /\ target = "seq"
    /\ mode \in {"invoke", "ainvoke"}
    /\ pc = "call"
    /\ unit = NoUnit
    /\ behav = Behav("value", "value")
    /\ ret = NoneV
    /\ accepts_context \in (IF mode = "ainvoke" THEN BOOLEAN ELSE {TRUE})
    /\ reg = NoThing
    /\ lastOp = NoOp
    /\ steps \in StepLists
    /\ orig \in {IntV(n) : n \in 0..MaxInput}
    /\ kwargs \in {Kwargs(k, AbsentCfg) : k \in {0, 2}}
    /\ config \in CallerConfigs
    /\ callArgs = [config |-> config, kwargs |-> kwargs]
    /\ input = orig
    /\ idx = 0
    /\ task = <<>>
    /\ StreamIdle
    /\ events = <<>>
    /\ calls = <<>>
    /\ outcome = NoOutcome
    /\ proc = NoProcs

\* the iterators of the steps of a streamed sequence: "agen" has an aclose
\* method, "iter" has none, "raise" is a step whose stream call raises
StreamStepLists(m) ==
    UNION {[1..n -> IF m = "astream" THEN {"agen", "iter", "raise"}
                    ELSE {"iter", "raise"}] : n \in 2..MaxSteps}

InitStream ==
    /\ target = "seq"
    /\ mode \in Streams
    /\ pc = "call"
    /\ unit = NoUnit
    /\ behav = Behav("value", "value")
    /\ ret = NoneV
    /\ accepts_context = TRUE
    /\ reg = NoThing
    /\ lastOp = NoOp
    /\ steps \in StreamStepLists(mode)
    /\ orig = IntV(0)
    /\ kwargs \in {Kwargs(k, AbsentCfg) : k \in {0, 2}}
    /\ config \in {Cfg({}, "caller", 1)}
    /\ callArgs = [config |-> config, kwargs |-> kwargs]
    /\ input = orig
    /\ idx = 0
    /\ task = <<>>
    /\ StreamIdle
    /\ events = <<>>
    /\ calls = <<>>
    /\ outcome = NoOutcome
    /\ proc = NoProcs

\* one sequence, and two calls of its ainvoke with different inputs and
\* configs, each made in a task that has the caller's context
InitConc ==
    /\ target = "conc"
    /\ mode = "ainvoke"
    /\ pc = "call"
    /\ unit = NoUnit
    /\ behav = Behav("value", "value")
    /\ ret = NoneV
    /\ accepts_context \in BOOLEAN
    /\ reg = NoThing
    /\ lastOp = NoOp
    /\ steps \in StepLists
    /\ orig = IntV(0)
    /\ kwargs = NoKwargs
    /\ config = NoneCfg
    /\ callArgs = [config |-> config, kwargs |-> kwargs]
    /\ input = orig
    /\ idx = 0
    /\ task = <<>>
    /\ StreamIdle
    /\ events = <<>>
    /\ calls = <<>>
    /\ outcome = NoOutcome
    /\ proc = [c \in CallIds |->
                  Proc("call", IntV(c - 1), Cfg({CallTag(c)}, "caller", c - 1),
                       copy_context(CallerAmbient))]

Init == InitCompose \/ InitCallable \/ InitSeq \/ InitStream \/ InitConc

Next ==
    \/ Construct
    \/ Append_
    \/ Prepend
    \/ CallableEnter
    \/ CallableRun
    \/ CallableRecurse
    \/ SeqEnter
    \/ SeqInvokeStep
    \/ SeqEnd
    \/ SeqTaskCreate
    \/ SeqTaskRun
    \/ SeqTaskDone
    \/ SeqCancel
    \/ StreamEnter
    \/ StreamBuild
    \/ StreamBuilt
    \/ StreamYield
    \/ StreamResume
    \/ StreamExhausted
    \/ StreamProducerRaises
    \/ StreamClose
    \/ StreamCancel
    \/ \E c \in CallIds : AinvokeEnter(c)
    \/ \E c \in CallIds : AinvokeTaskCreate(c)
    \/ \E c \in CallIds : AinvokeTaskRun(c)
    \/ \E c \in CallIds : AinvokeTaskDone(c)
    \/ \E c \in CallIds : AinvokeEnd(c)

Spec == Init /\ [][Next]_vars

-----------------------------------------------------------------------------
(* Properties                                                              *)

Count(kind) == Cardinality({i \in DOMAIN events : events[i].kind = kind})
Terminal(e) == e.kind \in {"end", "error"}
\* the call opens a root run: every sequence call, and a call of a traced
\* RunnableCallable
Traced == target = "seq" \/ (target = "callable" /\ unit.trace)
\* the call failed for want of a synchronous function, before its body ran
NoBody == outcome = Raise(NoSyncFunction)

\* C1: the root run of a traced RunnableCallable call and of every
\* RunnableSeq call receives one start, first, and then one terminal event,
\* end or error, never both and never two of a kind; a call that has ended
\* has sent both, and a sequence call has sent end iff it returned
C1_SpanLifecycle ==
    Traced =>
        /\ Count("start") <= 1
        /\ Count("end") + Count("error") <= 1
        /\ events # <<>> => events[1].kind = "start"
        /\ Len(events) <= 2
        /\ (pc = "done" /\ ~NoBody) =>
              /\ Len(events) = 2
              /\ Terminal(events[2])
              /\ target = "seq" =>
                    (events[2].kind = "end" <=> outcome.kind = "return")
        /\ (pc # "call" /\ ~NoBody) => events # <<>>

C1_Witness ==
    /\ target = "seq" /\ mode = "astream" /\ pc = "done"
    /\ Len(delivered) = 2
    /\ outcome = Raise(ProducerError)
    /\ events = <<Ev("root", "start", orig),
                  Ev("root", "error", ProducerError)>>

\* what the steps ss compute from x, one after the other
RECURSIVE Compose(_, _)
Compose(ss, x) ==
    IF ss = <<>> THEN x ELSE Compose(Tail(ss), StepOut(Head(ss), x, 0).val)

NoStepRaises == \A i \in DOMAIN steps : steps[i] # "raise"
SeqCallDone(m) == target = "seq" /\ mode = m /\ pc = "done"

\* C2: when no step raises, RunnableSeq.invoke returns the composition of
\* its steps on the caller's input; each step was invoked once, in order,
\* step 1 on the caller's input and each later step on the output of the
\* one before; the end event carries the returned value
C2_InvokeComposes ==
    (SeqCallDone("invoke") /\ NoStepRaises) =>
        /\ outcome = Return(Compose(steps, orig))
        /\ Len(calls) = Len(steps)
        /\ \A i \in DOMAIN calls :
              /\ calls[i].step = i
              /\ calls[i].arg = Compose(SubSeq(steps, 1, i - 1), orig)
        /\ events[Len(events)] = Ev("root", "end", outcome.val)

C2_Witness ==
    /\ SeqCallDone("invoke")
    /\ steps = <<"inc", "dbl", "inc">>
    /\ orig = IntV(1)
    /\ outcome = Return(IntV(5))

\* the first step that raises (0: none)
FirstRaise ==
    IF NoStepRaises THEN 0
    ELSE CHOOSE i \in DOMAIN steps :
            /\ steps[i] = "raise"
            /\ \A j \in 1..(i - 1) : steps[j] # "raise"

\* C3: in invoke and ainvoke, no step after the first raising step i is
\* ever invoked; when the call ends, not having been cancelled, the caller
\* has got that step's own exception and the root run has got error with
\* it and no end
C3_StepErrorAborts ==
    (target = "seq" /\ mode \in {"invoke", "ainvoke"} /\ FirstRaise # 0) =>
        /\ \A k \in DOMAIN calls : calls[k].step <= FirstRaise
        /\ task # <<>> => task[1].step <= FirstRaise
        /\ (pc = "done" /\ outcome # Raise(CancelledError)) =>
              /\ outcome = Raise(StepError(FirstRaise))
              /\ Len(calls) = FirstRaise
              /\ events = <<Ev("root", "start", orig),
                            Ev("root", "error", StepError(FirstRaise))>>

C3_Witness ==
    /\ SeqCallDone("ainvoke")
    /\ steps = <<"inc", "raise", "dbl">>
    /\ outcome = Raise(StepError(2))
    /\ Len(calls) = 2

\* chunks that all combine with +, and what they add up to
AllAddable(cs) == \A k \in DOMAIN cs : CanAdd(cs[1], cs[k])
RECURSIVE Sum(_)
Sum(cs) == IF Len(cs) = 1 THEN cs[1]
           ELSE Add(Sum(SubSeq(cs, 1, Len(cs) - 1)), cs[Len(cs)])
StreamReturned == target = "seq" /\ mode \in Streams /\ pc = "done"
                  /\ outcome.kind = "return"

\* C4: when every chunk supports + with the accumulator, the end event of
\* stream / astream carries the sum of all chunks: 6 for [1, 2, 3]
C4_AccumulatesChunks ==
    (StreamReturned /\ produced # <<>> /\ AllAddable(produced)) =>
        events[Len(events)] = Ev("root", "end", Sum(produced))

\* among the first n chunks one does not combine with the accumulator
Incompatible(cs, n) == \E k \in 2..n : ~CanAdd(cs[1], cs[k])

\* C5: once a chunk has not combined with the accumulator, stream and
\* astream no longer attempt to accumulate and the collected output is the
\* last chunk collected; the end event carries the last chunk produced
C5_LastChunkAfterFailure ==
    (target = "seq" /\ mode \in Streams /\ Incompatible(produced, folded)) =>
        /\ ~add_supported
        /\ output = produced[folded]
        /\ (pc = "done" /\ outcome.kind = "return") =>
              events[Len(events)] = Ev("root", "end", produced[Len(produced)])

C5_Witness ==
    /\ StreamReturned
    /\ produced = <<StrA, DictX1>>
    /\ delivered = <<StrA, DictX1>>
    /\ events[Len(events)] = Ev("root", "end", DictX1)

\* C6: the consumer of stream / astream has received exactly the chunks
\* produced, in order; a chunk is collected only after it was yielded; when
\* the stream ends with an exception the consumer keeps the chunks it got,
\* the root run gets error with that exception and no end, and the
\* exception is raised
C6_ChunksDelivered ==
    (target = "seq" /\ mode \in Streams) =>
        /\ delivered = produced
        /\ folded <= Len(delivered)
        /\ pc = "yield" => /\ folded = Len(delivered) - 1
                           /\ pending = delivered[Len(delivered)]
        /\ (pc = "done" /\ outcome.kind = "raise") =>
              /\ events = <<Ev("root", "start", orig),
                            Ev("root", "error", outcome.val)>>
              /\ Count("end") = 0

C6_Witness ==
    /\ target = "seq" /\ mode = "stream" /\ pc = "done"
    /\ delivered = <<IntV(1), IntV(2)>>
    /\ outcome = Raise(ProducerError)
    /\ events[Len(events)] = Ev("root", "error", ProducerError)

\* x has no sequence among its steps
NoSeqChild(x) == \A i \in DOMAIN x.steps : x.steps[i].kind \notin SeqKinds
SeqAB == RunnableSeq(<<Atom("a"), Atom("b")>>)
SeqCD == RunnableSeq(<<Atom("c"), Atom("d")>>)

Coercible(x) ==
    x.kind \in {"Runnable", "function", "coroutine function",
                "generator function", "dict"}

\* C8: appending or prepending a non-sequence unit or a coercible value to
\* a RunnableSeq gives a sequence of its steps followed, or preceded, by
\* the coerced value
C8_AppendCoerces ==
    (target = "compose" /\ lastOp.op \in {"or", "ror"}
        /\ Coercible(lastOp.args[2])) =>
        /\ reg.kind \in SeqKinds
        /\ LET own == lastOp.args[1].steps
               v == coerce_to_runnable(lastOp.args[2], TRUE)
           IN  reg.steps = IF lastOp.op = "or" THEN Append(own, v)
                           ELSE <<v>> \o own

IsTooFew(x) == x.kind = "ValueError"

\* C9: RunnableSeq(*args) fails with the too-few-steps error exactly when
\* all arguments are accepted and fewer than 2 steps remain after
\* flattening; no argument or one non-sequence argument fails, one sequence
\* argument succeeds; every RunnableSeq has at least 2 steps
C9_TooFewSteps ==
    target = "compose" =>
        /\ reg.kind = "RunnableSeq" => Len(reg.steps) >= 2
        /\ lastOp.op = "init" =>
              LET args == lastOp.args
                  accepted == \A i \in DOMAIN args :
                                 args[i].kind \in SeqKinds \/ Coercible(args[i])
              IN  /\ IsTooFew(reg) <=> (accepted /\ Width(args) < 2)
                  /\ Len(args) = 0 => IsTooFew(reg)
                  /\ (Len(args) = 1 /\ args[1].kind \notin SeqKinds)
                        => IsError(reg)
                  /\ (Len(args) = 1 /\ args[1].kind \in SeqKinds)
                        => /\ reg.kind = "RunnableSeq"
                           /\ reg.steps = args[1].steps

C9_Witness ==
    /\ lastOp = Op("init", <<Atom("a")>>)
    /\ reg = TooFewSteps(1)

\* the config RunnableCallable resolves from the caller's
OuterConfig ==
    LET c == merge_configs(unit.tags, callArgs.config)
    IN  IF unit.trace THEN PopRunId(c) ELSE c

\* C10: when the wrapped function returns a unit and recurse is set, that
\* unit is invoked with the caller's input and the resolved outer config,
\* not the child config of the run, and its result is the call's result;
\* without recurse the unit itself is returned
C10_Recursion ==
    (target = "callable" /\ pc = "done" /\ ~NoBody /\ behav.fn = "unit") =>
        IF unit.recurse
        THEN /\ Len(calls) = 2
             /\ calls[2] = Call(2, orig, OuterConfig, NoKwargs, "caller")
             /\ calls[2].cfg.cb # "root:child"
             /\ outcome = InnerOut(behav.inner, orig)
             /\ outcome.val # UnitU2
        ELSE /\ Len(calls) = 1
             /\ outcome = Return(UnitU2)

C10_Witness ==
    /\ target = "callable" /\ pc = "done" /\ mode = "invoke"
    /\ unit.trace /\ unit.recurse /\ unit.tags = {"u"}
    /\ behav = Behav("unit", "value")
    /\ callArgs.config = Cfg({"t"}, "caller", 1)
    /\ Len(calls) = 2
    /\ calls[2].cfg = Cfg({"t", "u"}, "caller", 0)
    /\ outcome = Return(IntV(2))

\* C11: invoke on a RunnableCallable without a synchronous function raises
\* the no-synchronous-function error, no wrapped function having been
\* called and no run started; ainvoke on a unit with an async function
\* never raises it: the async function is called and its value returned
C11_NoSyncFunction ==
    target = "callable" =>
        /\ (mode = "invoke" /\ ~unit.func /\ pc # "call") =>
              /\ pc = "done"
              /\ outcome = Raise(NoSyncFunction)
              /\ calls = <<>>
              /\ events = <<>>
        /\ (mode = "ainvoke" /\ unit.afunc) =>
              /\ ~NoBody
              /\ pc = "done" =>
                    /\ calls # <<>>
                    /\ behav.fn = "value" => outcome = FuncOut("value", orig)

C11_Witness ==
    /\ target = "callable" /\ mode = "invoke" /\ pc = "done"
    /\ ~unit.func /\ unit.afunc /\ unit.trace
    /\ outcome = Raise(NoSyncFunction)
    /\ events = <<>>
    /\ calls = <<>>

\* the call is made on a unit that has a synchronous function only
SyncOnly == target = "callable" /\ unit.func /\ ~unit.afunc

\* C12: on a unit with a synchronous function only, ainvoke calls the
\* function as invoke does: with the call's keyword arguments merged over
\* the unit's fixed keyword arguments, and returns what the function returns
C12_AinvokeAsInvoke ==
    (SyncOnly /\ calls # <<>>) =>
        /\ calls[1].kw.kw = MergeKwargs(unit.kwargs, callArgs.kwargs.kw)
        /\ (pc = "done" /\ behav.fn = "value") =>
              outcome = FuncOut("value", orig)

\* the function the call runs takes a config parameter
TakesConfig ==
    IF mode = "invoke" \/ ~unit.afunc THEN unit.func_accepts_config
    ELSE unit.afunc_accepts_config

\* C16: a wrapped function that takes a config parameter is passed, as the
\* config keyword, the resolved config: the unit's tags merged under the
\* config the caller passed, whatever the caller passed, None included
C16_InjectsResolved ==
    (target = "callable" /\ calls # <<>> /\ TakesConfig) =>
        calls[1].kw.config = merge_configs(unit.tags, callArgs.config)

\* C17: every RunnableCallable, constructed directly (the invoked unit) or
\* by coerce_to_runnable (a step of a composed sequence), has a synchronous
\* or an asynchronous function
C17_FunctionBound ==
    /\ target = "callable" => (unit.func \/ unit.afunc)
    /\ (target = "compose" /\ reg.kind \in SeqKinds) =>
          \A i \in DOMAIN reg.steps :
              reg.steps[i].kind = "RunnableCallable" =>
                  (reg.steps[i].func \/ reg.steps[i].afunc)

\* C18: in RunnableSeq.ainvoke at most one step task is in flight; the task
\* in flight is the task of the step after the last completed one, every
\* earlier step's task has completed, and it was given the running value,
\* which is the output of the step before it
C18_OneTaskInFlight ==
    (target = "seq" /\ mode = "ainvoke") =>
        /\ Len(task) <= 1
        /\ Len(calls) <= Len(steps)
        /\ task # <<>> =>
              /\ task[1].step = idx + 1
              /\ Len(calls) = IF pc = "await" THEN idx ELSE idx + 1
              /\ \A k \in DOMAIN calls : calls[k].step = k
              /\ task[1].arg = input
              /\ idx > 0 =>
                    input = StepOut(steps[idx], calls[idx].arg, idx).val

C18_Witness ==
    /\ target = "seq" /\ mode = "ainvoke" /\ pc = "await"
    /\ steps = <<"inc", "dbl", "inc">>
    /\ orig = IntV(2)
    /\ Len(calls) = 1
    /\ Len(task) = 1
    /\ task[1].step = 2
    /\ task[1].arg = IntV(3)

\* the call is made on a traced unit with recurse set whose function
\* returns a unit
ReturnsUnit ==
    /\ target = "callable" /\ unit.trace /\ unit.recurse
    /\ behav.fn = "unit" /\ ~NoBody

\* C19: for a traced RunnableCallable with recurse set whose function
\* returns a unit U2, the run has got end(U2) before U2 is invoked and gets
\* nothing after it; when U2 raises e the caller gets e and the run keeps
\* start and end(U2), without error(e)
C19_EndBeforeRecurse ==
    ReturnsUnit =>
        /\ pc = "recurse" =>
              /\ Len(calls) = 1
              /\ events = <<Ev("root", "start", orig),
                            Ev("root", "end", UnitU2)>>
        /\ Len(calls) = 2 =>
              events = <<Ev("root", "start", orig), Ev("root", "end", UnitU2)>>
        /\ (pc = "done" /\ behav.inner = "raise") =>
              /\ outcome = Raise(InnerError)
              /\ Count("error") = 0
              /\ events[Len(events)] = Ev("root", "end", UnitU2)

C19_Witness ==
    /\ ReturnsUnit /\ mode = "ainvoke" /\ unit.afunc
    /\ pc = "done"
    /\ behav.inner = "raise"
    /\ Len(calls) = 2
    /\ outcome = Raise(InnerError)
    /\ events = <<Ev("root", "start", orig), Ev("root", "end", UnitU2)>>

\* the generator of stream / astream was closed at a yield
Abandoned ==
    /\ target = "seq" /\ mode \in Streams /\ pc = "done"
    /\ outcome = Raise(GeneratorExit)

\* C20: when the generator of stream / astream is closed after the consumer
\* got at least one chunk, the root run gets error with GeneratorExit and
\* no end, so the output collected so far is not reported; the run gets
\* end only when the chained iterator is exhausted, every chunk produced
\* having been collected
C20_AbandonReportsError ==
    (target = "seq" /\ mode \in Streams) =>
        /\ Abandoned =>
              /\ Len(delivered) >= 1
              /\ events = <<Ev("root", "start", orig),
                            Ev("root", "error", GeneratorExit)>>
              /\ Count("end") = 0
        /\ Count("end") > 0 =>
              /\ pc = "done"
              /\ outcome.kind = "return"
              /\ folded = Len(produced)
              /\ delivered = produced

C20_Witness ==
    /\ Abandoned /\ mode = "stream"
    /\ delivered = <<IntV(1), IntV(2)>>
    /\ folded = 1
    /\ output = IntV(1)
    /\ events[Len(events)] = Ev("root", "error", GeneratorExit)

\* C14: when RunnableSeq.ainvoke is cancelled between two steps, the
\* cancellation starts no step, the step task not yet run is dropped, the
\* root run gets error with CancelledError after its start and the call
\* ends; nothing is invoked or reported once a call has ended
C14_CancelAborts ==
    [][(target = "seq" /\ mode = "ainvoke") =>
          /\ (outcome.kind = "none" /\ outcome' = Raise(CancelledError)) =>
                /\ calls' = calls
                /\ task' = <<>>
                /\ events' = <<Ev("root", "start", orig),
                               Ev("root", "error", CancelledError)>>
                /\ pc' = "done"
          /\ pc = "done" => (calls' = calls /\ events' = events)]_vars

\* cancelled after step 1 completed and before the task of step 2 ran
C14_Witness ==
    /\ target = "seq" /\ mode = "ainvoke" /\ pc = "done"
    /\ Len(steps) >= 2
    /\ outcome = Raise(CancelledError)
    /\ idx = 1
    /\ Len(calls) = 1
    /\ calls[1].step = 1
    /\ task = <<>>
    /\ events[Len(events)] = Ev("root", "error", CancelledError)

\* the steps among the first n whose iterator has an aclose method, in the
\* order the chain acquires them
RECURSIVE Closables(_, _)
Closables(ss, n) ==
    IF n = 0 THEN <<>>
    ELSE IF ss[n] = "agen" THEN Append(Closables(ss, n - 1), n)
         ELSE Closables(ss, n - 1)

\* C15: in astream the iterators with an aclose method acquired so far are
\* registered in acquisition order and none is closed while the stream is
\* running; when astream has ended, by exhaustion, by a step failing while
\* the chain is built or consumed, by the consumer closing the generator or
\* by cancellation, each of them has been closed once, the last acquired
\* first
C15_ReleasedInReverse ==
    (target = "seq" /\ mode = "astream") =>
        LET acq == Closables(steps, idx)
            n == Len(acq)
        IN  /\ stack = acq
            /\ pc # "done" => released = <<>>
            /\ pc = "done" =>
                  /\ Len(released) = n
                  /\ \A k \in 1..n : released[k] = acq[n + 1 - k]

C15_Witness ==
    /\ target = "seq" /\ mode = "astream" /\ pc = "done"
    /\ steps = <<"agen", "iter", "agen">>
    /\ outcome = Raise(GeneratorExit)
    /\ Len(delivered) = 1
    /\ released = <<3, 1>>

\* C13: in two concurrent ainvoke calls on one sequence, every step of a
\* call runs with the config derived for that step of that call as the
\* ambient config, and the tag of the other call's config is not in it
C13_AmbientIsolated ==
    target = "conc" =>
        \A c \in CallIds : \A k \in DOMAIN proc[c].calls :
            LET call == proc[c].calls[k]
            IN  /\ call.amb = call.cfg
                /\ call.cfg.tags = {CallTag(c)}
                /\ \A d \in CallIds \ {c} : CallTag(d) \notin call.amb.tags

====
